---- MODULE Spec2Model ----
(***************************************************************************)
(* lmformatenforcer/transformerenforcer.py: generate_enforced, the         *)
(* LogitsSaverManager that overrides the model's _get_logits_warper hook   *)
(* for the length of one model.generate call, the LogitsSaverWarper that   *)
(* records the score vector of every decoding step, and the reduction of   *)
(* the recorded vectors to the enforced_scores table.                      *)
(*                                                                         *)
(* model.generate is the host: it is called at lines 101 and 122 and is    *)
(* modelled by what it does with the objects this file hands to it: it may *)
(* resolve its warper chain through model._get_logits_warper once, before  *)
(* its first decoding step (it does so when sampling), it runs every       *)
(* decoding step's scores through prefix_allowed_tokens_fn (when given)    *)
(* and then through the resolved chain, and it appends one token per step. *)
(* The model follows row 0 of the batch, the row generate_enforced reads.  *)
(***************************************************************************)
EXTENDS Integers, Sequences, FiniteSets, TLC

VARIABLES
  pc,               \* where generate_enforced is: idle, generate, finally, reduce, returned, raised
  kwargs,           \* the caller's keyword arguments (the ones the code reads)
  parser,           \* character_level_parser: the constraint handed to TokenEnforcer
  net,              \* the model's weights: which score function the forward pass computes
  prompt,           \* kwargs['input_ids'][0]
  hook,             \* model._get_logits_warper
  old_warper,       \* logits_saver.old_warper
  warper,           \* logits_saver.warper: a recorder id, or None
  scores,           \* scores[r]: LogitsSaverWarper.scores of recorder r
  passed,           \* the arguments model.generate was called with
  generateCalls,    \* how many times model.generate was called
  hostChain,        \* the host's resolved warper chain (a list, or None)
  sequence,         \* the host's row 0: prompt plus the tokens appended so far
  steps,            \* decoding steps the host has performed
  last,             \* the host's latest decoding step: what entered and left the chain
  pending,          \* the exception in flight inside the try block
  error,            \* the exception that left generate_enforced
  output,           \* what generate_enforced returned
  hookBefore,       \* model._get_logits_warper when generate_enforced was entered
  reducerInvoked,   \* whether lines 105-120 were entered
  plainChain,       \* the chain a later, uninstrumented model.generate resolves
  managers,         \* managers[m]: old_warper and warper of LogitsSaverManager m
  trace             \* the calls made on the managers and on the hook, in order

vars == <<pc, kwargs, parser, net, prompt, hook, old_warper, warper, scores, passed,
          generateCalls, hostChain, sequence, steps, last, pending, error, output,
          hookBefore, reducerInvoked, plainChain, managers, trace>>

-----------------------------------------------------------------------------
(* Bounds *)

MaxHookCalls == 2
MaxManagers == 2
MaxOps == 4
MaxCalls == 2
VocabSize == 3
MaxScore == 2
MaxSteps == 2
MaxPromptLen == 2
MaxInputs == 2
MaxBeams == 2

-----------------------------------------------------------------------------
(* Values *)

Tokens == 0 .. (VocabSize - 1)

\* Python's None, for the fields that hold a hook, a recorder or a list.
None == -1

\* model._get_logits_warper as the class defines it.
OriginalHook == 0

\* The closure new_logits_warper of the one LogitsSaverManager of a call.
Override == 1

\* -inf, the value PrefixConstrainedLogitsProcessor and top-k masking write.
NegInf == -1

Min(a, b) == IF a < b THEN a ELSE b

Last(s) == s[Len(s)]

RECURSIVE Pow2(_)
Pow2(n) == IF n <= 0 THEN 1 ELSE 2 * Pow2(n - 1)

RECURSIVE SumTo(_, _)
SumTo(f, n) == IF n < 0 THEN 0 ELSE f[n] + SumTo(f, n - 1)

-----------------------------------------------------------------------------
(* The collaborators: the constraint engine, the tokenizer, the network *)

Parsers == {"any", "position", "norepeat"}

\* TokenEnforcer.get_allowed_tokens(token_sequence): a non-empty set of token ids,
\* a function of the full token sequence.
get_allowed_tokens(p, token_sequence) ==
  CASE p = "any"      -> Tokens
    [] p = "position" -> {Len(token_sequence) % VocabSize}
    [] p = "norepeat" -> IF token_sequence = <<>> THEN Tokens
                         ELSE Tokens \ {Last(token_sequence)}

\* tokenizer.convert_ids_to_tokens([token], skip_special_tokens=False)[0]
TokenText == <<"<s>", "a", "b", "c", "d", "e">>

convert_ids_to_tokens(token) == TokenText[token + 1]

Nets == 0 .. MaxScore

\* The forward pass: the score vector of the next token, a function of the weights
\* and of the token sequence so far.
Logits(n, sent) ==
  [t \in Tokens |-> (t * n + Len(sent) + Last(sent)) % (MaxScore + 1)]

Prompts == {[i \in 1 .. n |-> i % VocabSize] : n \in 1 .. MaxPromptLen}

-----------------------------------------------------------------------------
(* torch *)

Weight(s) == IF s = NegInf THEN 0 ELSE Pow2(s)

\* torch.softmax over the vocabulary axis, with exact arithmetic: the probability of
\* token t is the fraction <<numerator, denominator>>, the exponential taken to base 2.
Softmax(v) ==
  LET w == [t \in Tokens |-> Weight(v[t])]
      total == SumTo(w, VocabSize - 1)
  IN  [t \in Tokens |-> <<w[t], total>>]

\* p >= q for two fractions.
Geq(p, q) == p[1] * q[2] >= q[1] * p[2]

IsMax(v, t) == \A u \in Tokens : v[u] <= v[t]

\* torch.argmax: the index of the first maximal value.
ArgMax(v) == CHOOSE t \in Tokens : IsMax(v, t) /\ \A u \in Tokens : IsMax(v, u) => t <= u

\* Suffix taking the first k elements instead of the last k.
SuffixFromStart(s, k) ==
  IF k = 0 \/ k >= Len(s) THEN s ELSE SubSeq(s, 1, k)

\* Python's token_sequence[-k:]
Suffix(s, k) ==
  IF k = 0 \/ k >= Len(s) THEN s ELSE SubSeq(s, Len(s) - k + 1, Len(s))

\* Python's list.insert(i, x)
Insert(s, i, x) ==
  LET j == Min(i, Len(s)) IN SubSeq(s, 1, j) \o <<x>> \o SubSeq(s, j + 1, Len(s))


-----------------------------------------------------------------------------
(* The warper chain and its entries *)

RecorderEntry(r) == [kind |-> "recorder", id |-> r]
FilterEntry == [kind |-> "filter", id |-> 0]

\* What the class's own _get_logits_warper returns: a fresh list of the warpers the
\* generation config asks for (here a temperature warper, then a top-k warper).
OriginalChain == <<[kind |-> "temperature", id |-> 0], [kind |-> "topk", id |-> 0]>>

NoChain == [resolved |-> FALSE, list |-> <<>>, err |-> "none"]

\* TemperatureLogitsWarper with temperature 1/2.
Temperature(v) == [t \in Tokens |-> IF v[t] = NegInf THEN NegInf ELSE 2 * v[t]]

\* TopKLogitsWarper with top_k = 2: every score below the second largest becomes -inf.
TopK(v) ==
  LET second == CHOOSE s \in {v[t] : t \in Tokens} :
                  /\ Cardinality({t \in Tokens : v[t] > s}) < 2
                  /\ Cardinality({t \in Tokens : v[t] >= s}) >= Min(2, VocabSize)
  IN  [t \in Tokens |-> IF v[t] < second THEN NegInf ELSE v[t]]

\* The closure of lines 81-83 over token_enforcer; batch_id is not read.
transformers_filter_allowed_tokens(sent) == get_allowed_tokens(parser, sent)

\* PrefixConstrainedLogitsProcessor(filter_func, 1).__call__: the scores of the tokens
\* filter_func does not return become -inf, the others are kept.
PrefixConstrainedLogitsProcessor(sent, v) ==
  [t \in Tokens |-> IF t \in transformers_filter_allowed_tokens(sent) THEN v[t] ELSE NegInf]

\* LogitsSaverWarperCall keeping only the latest vector.
LogitsSaverWarperCallOverwrite(list, v) ==
  [scores |-> <<v>>, ret |-> v]

\* LogitsSaverWarperCall returning a vector other than the one it was given.
LogitsSaverWarperCallZeroing(list, v) ==
  [scores |-> Append(list, v), ret |-> [t \in Tokens |-> 0]]

\* LogitsSaverWarper.__call__: append a copy of the scores, return the scores.
LogitsSaverWarperCall(list, v) ==
  [scores |-> Append(list, v), ret |-> v]

\* One entry of the chain applied to the scores v of the row sent; sc is every
\* recorder's list.
ApplyEntry(e, sent, v, sc) ==
  CASE e.kind = "recorder" ->
         LET r == LogitsSaverWarperCall(sc[e.id], v)
         IN  [v |-> r.ret, sc |-> [sc EXCEPT ![e.id] = r.scores]]
    [] e.kind = "filter" -> [v |-> PrefixConstrainedLogitsProcessor(sent, v), sc |-> sc]
    [] e.kind = "temperature" -> [v |-> Temperature(v), sc |-> sc]
    [] e.kind = "topk" -> [v |-> TopK(v), sc |-> sc]

\* LogitsProcessorList.__call__: the entries in list order.
RECURSIVE RunChain(_, _, _, _)
RunChain(chain, sent, v, sc) ==
  IF chain = <<>> THEN [v |-> v, sc |-> sc]
  ELSE LET r == ApplyEntry(Head(chain), sent, v, sc)
       IN  RunChain(Tail(chain), sent, r.v, r.sc)

-----------------------------------------------------------------------------
(* LogitsSaverManager *)

\* NewLogitsWarper with the filter inserted before the recorder.
NewLogitsWarperFilterFirst(warpers, r, with_filter) ==
  IF with_filter THEN Insert(Insert(warpers, 0, FilterEntry), 1, RecorderEntry(r))
  ELSE Insert(warpers, 0, RecorderEntry(r))

\* new_logits_warper, lines 33-39, on the list the saved hook returned: r is the
\* recorder created at line 34, with_filter says filter_func is not None.
NewLogitsWarper(warpers, r, with_filter) ==
  LET with_recorder == Insert(warpers, 0, RecorderEntry(r))
  IN  IF with_filter THEN Insert(with_recorder, 1, FilterEntry) ELSE with_recorder

\* Calling the value h of model._get_logits_warper, the manager's saved hook being
\* saved and the next free recorder id being r.
\* err: the exception the call ends with; creates: whether a recorder was created.
InvokeHook(h, saved, r) ==
  CASE h = OriginalHook ->
         [err |-> "none", creates |-> FALSE, list |-> OriginalChain]
    [] h = Override /\ saved = OriginalHook ->
         [err |-> "none", creates |-> TRUE, list |-> NewLogitsWarper(OriginalChain, r, TRUE)]
    [] h = Override /\ saved = Override ->
         [err |-> "RecursionError", creates |-> FALSE, list |-> <<>>]
    [] OTHER ->
         [err |-> "TypeError", creates |-> FALSE, list |-> <<>>]

\* ReplaceLogitsWarper saving the hook without installing the override.
ReplaceLogitsWarperNoInstall(h, saved) == [old_warper |-> h, hook |-> h]

\* replace_logits_warper, lines 30 and 40
ReplaceLogitsWarper(h, saved) == [old_warper |-> h, hook |-> Override]

\* UnreplaceLogitsWarper putting the model's own method back.
UnreplaceLogitsWarperToOriginal(h, saved) == OriginalHook

\* UnreplaceLogitsWarper leaving the hook as it is.
UnreplaceLogitsWarperNoRestore(h, saved) == h

\* unreplace_logits_warper, line 43: the new value of model._get_logits_warper
UnreplaceLogitsWarper(h, saved) == saved

\* get_generated_scores, lines 46-50, for the manager's recorder w
get_generated_scores(w, sc, token_sequence) ==
  IF w = None THEN [err |-> "AttributeError", val |-> <<>>]
  ELSE
    LET rec == sc[w]
        k == Len(rec)
        relevant_tokens == Suffix(token_sequence, k)
        probs == [i \in 1 .. k |-> Softmax(rec[i])]
    IN  IF k = 0 THEN [err |-> "RuntimeError", val |-> <<>>]
        ELSE IF Len(relevant_tokens) = k
          THEN [err |-> "none", val |-> [i \in 1 .. k |-> probs[i][relevant_tokens[i]]]]
        ELSE IF Len(relevant_tokens) = 1
          THEN [err |-> "none", val |-> [i \in 1 .. k |-> probs[i][relevant_tokens[1]]]]
        ELSE IF k = 1
          THEN [err |-> "none",
                val |-> [j \in 1 .. Len(relevant_tokens) |-> probs[1][relevant_tokens[j]]]]
        ELSE [err |-> "IndexError", val |-> <<>>]

\* get_leading_scores taking the least score of each row instead of the greatest.
get_leading_scores_min(w, sc) ==
  LET rec == sc[w]
      best_tokens == [i \in 1 .. Len(rec) |-> ArgMax([t \in Tokens |-> 0 - rec[i][t]])]
  IN  [tokens |-> best_tokens,
       probs |-> [i \in 1 .. Len(rec) |-> Softmax(rec[i])[best_tokens[i]]]]

\* get_leading_scores, lines 53-58, called after get_generated_scores succeeded
get_leading_scores(w, sc) ==
  LET rec == sc[w]
      best_tokens == [i \in 1 .. Len(rec) |-> ArgMax(rec[i])]
  IN  [tokens |-> best_tokens,
       probs |-> [i \in 1 .. Len(rec) |-> Softmax(rec[i])[best_tokens[i]]]]


-----------------------------------------------------------------------------
(* generate_enforced *)

Flags == {"absent", "False", "True"}

\* The keyword arguments the code reads: nInputs is kwargs['input_ids'].shape[0];
\* num_beams is None when the key is absent; do_sample is the host's own option.
KwargsSet ==
  [nInputs : 0 .. MaxInputs,
   num_beams : {None} \cup (0 .. MaxBeams),
   return_dict_in_generate : Flags,
   output_scores : Flags,
   do_sample : BOOLEAN]

NoKwargs ==
  [nInputs |-> 1, num_beams |-> None, return_dict_in_generate |-> "absent",
   output_scores |-> "absent", do_sample |-> FALSE]

\* kwargs.get(key, default)
Get(value, absent, default) == IF value = absent THEN default ELSE value

\* ShouldRunInAdvancedMode without support_diagnostics.
ShouldRunInAdvancedModeNoSupportCheck(kw) ==
  /\ Get(kw.return_dict_in_generate, "absent", "False") = "True"
  /\ Get(kw.output_scores, "absent", "None") = "True"

\* should_run_in_advanced_mode, lines 85-93
ShouldRunInAdvancedMode(kw) ==
  LET is_multi_inputs == kw.nInputs > 1
      is_multi_beams == Get(kw.num_beams, None, 1) > 1
      support_diagnostics == ~(is_multi_inputs \/ is_multi_beams)
      return_dict_in_generate == Get(kw.return_dict_in_generate, "absent", "False")
      output_scores == Get(kw.output_scores, "absent", "None")
  IN  return_dict_in_generate = "True" /\ output_scores = "True" /\ support_diagnostics

NoTable ==
  [generated_token |-> <<>>, generated_token_idx |-> <<>>, generated_score |-> <<>>,
   leading_token |-> <<>>, leading_token_idx |-> <<>>, leading_score |-> <<>>]

\* rows and row0: output.sequences; attached: whether output.enforced_scores was set.
NoOutput == [rows |-> 0, row0 |-> <<>>, attached |-> FALSE, enforced_scores |-> NoTable]

NoStep == [tok |-> None, allowed |-> {}, entered |-> <<>>, left |-> <<>>, plain |-> <<>>]

\* Lines 105-120 on the host's output: the table, or the exception that stops it.
Reduction(rows, seq, w, sc) ==
  IF rows = 0 THEN [err |-> "IndexError", table |-> NoTable]
  ELSE
    LET generated_scores == get_generated_scores(w, sc, seq)
    IN  IF generated_scores.err # "none"
          THEN [err |-> generated_scores.err, table |-> NoTable]
        ELSE
          LET generated_tokens == Suffix(seq, Len(generated_scores.val))
              leading == get_leading_scores(w, sc)
          IN  [err |-> "none",
               table |->
                 [generated_token |->
                    [i \in 1 .. Len(generated_tokens) |->
                       convert_ids_to_tokens(generated_tokens[i])],
                  generated_token_idx |-> generated_tokens,
                  generated_score |-> generated_scores.val,
                  leading_token |->
                    [i \in 1 .. Len(leading.tokens) |->
                       convert_ids_to_tokens(leading.tokens[i])],
                  leading_token_idx |-> leading.tokens,
                  leading_score |-> leading.probs]]

\* LogitsSaverManagerInit handing out the fields of the previous call's manager.
LogitsSaverManagerInitReused == [old_warper |-> old_warper, warper |-> warper]

\* LogitsSaverManager.__init__, lines 25-27: the fields of the manager line 96 creates.
LogitsSaverManagerInit == [old_warper |-> None, warper |-> None]

\* The LogitsSaverManager objects created on the model.
Managers == 1 .. MaxManagers

Init ==
  /\ pc = "idle"
  /\ kwargs = NoKwargs
  /\ parser = "any"
  /\ net = 0
  /\ prompt = <<>>
  /\ hook = OriginalHook
  /\ old_warper = None
  /\ warper = None
  /\ scores = <<>>
  /\ passed = [kw |-> NoKwargs, prefix_allowed_tokens_fn |-> FALSE]
  /\ generateCalls = 0
  /\ hostChain = NoChain
  /\ sequence = <<>>
  /\ steps = 0
  /\ last = NoStep
  /\ pending = "none"
  /\ error = "none"
  /\ output = NoOutput
  /\ hookBefore = OriginalHook
  /\ reducerInvoked = FALSE
  /\ plainChain = NoChain
  /\ managers = [m \in Managers |-> LogitsSaverManagerInit]
  /\ trace = <<>>

\* generate_enforced is called with keyword arguments of K, a parser of P and a
\* prompt of Pr on a model whose weights are of N: lines 78-97, up to the call of
\* model.generate at line 101 (advanced mode) or 122.
EnterWith(K, P, N, Pr) ==
  /\ pc = "idle"
  /\ \E kw \in K, p \in P, n \in N, pr \in Pr :
       LET logits_saver == LogitsSaverManagerInit
           replaced == ReplaceLogitsWarper(hook, logits_saver.old_warper)
       IN  /\ kwargs' = kw
           /\ parser' = p
           /\ net' = n
           /\ prompt' = pr
           /\ hookBefore' = hook
           /\ IF ShouldRunInAdvancedMode(kw)
                THEN /\ old_warper' = replaced.old_warper
                     /\ warper' = logits_saver.warper
                     /\ hook' = replaced.hook
                     /\ passed' = [kw |-> kw, prefix_allowed_tokens_fn |-> FALSE]
                ELSE /\ UNCHANGED <<old_warper, hook>>
                     /\ warper' = None
                     /\ passed' = [kw |-> kw, prefix_allowed_tokens_fn |-> TRUE]
           /\ sequence' = IF kw.nInputs = 0 THEN <<>> ELSE pr
  /\ generateCalls' = generateCalls + 1
  /\ pc' = "generate"
  /\ UNCHANGED <<scores, hostChain, steps, last, pending, error, output,
                 reducerInvoked, plainChain>>
  /\ UNCHANGED <<managers, trace>>

\* A call of generate_enforced with any keyword arguments.
Enter == EnterWith(KwargsSet, Parsers, Nets, Prompts)

Advanced == ShouldRunInAdvancedMode(kwargs)

\* The host resolves its warper chain: it calls model._get_logits_warper, once,
\* before its first decoding step, when it samples. Under the override this runs
\* new_logits_warper (lines 32-39), which creates the recorder.
HostResolve ==
  /\ pc = "generate"
  /\ passed.kw.do_sample
  /\ ~hostChain.resolved
  /\ LET r == InvokeHook(hook, old_warper, Len(scores) + 1)
     IN  IF r.err = "none"
           THEN /\ hostChain' = [resolved |-> TRUE, list |-> r.list, err |-> "none"]
                /\ IF r.creates
                     THEN /\ scores' = Append(scores, <<>>)
                          /\ warper' = Len(scores) + 1
                     ELSE UNCHANGED <<scores, warper>>
                /\ UNCHANGED <<pc, pending, error>>
           ELSE /\ pending' = r.err
                /\ pc' = IF Advanced THEN "finally" ELSE "raised"
                /\ error' = IF Advanced THEN error ELSE r.err
                /\ UNCHANGED <<hostChain, scores, warper>>
  /\ UNCHANGED <<kwargs, parser, net, prompt, hook, old_warper, passed, generateCalls,
                 sequence, steps, last, output, hookBefore, reducerInvoked, plainChain>>
  /\ UNCHANGED <<managers, trace>>

\* What the fallback path (line 122) makes of the scores v of the row sent: the
\* constraint as prefix_allowed_tokens_fn, then the original chain when the host
\* resolves one.
PlainScores(sent, v) ==
  LET filtered == PrefixConstrainedLogitsProcessor(sent, v)
  IN  IF hostChain.resolved THEN RunChain(OriginalChain, sent, filtered, scores).v
      ELSE filtered

\* The tokens the host may append given the step's final scores: any token of
\* non-zero probability when sampling, the argmax otherwise.
HostChoices(v, do_sample) ==
  IF do_sample THEN {t \in Tokens : v[t] # NegInf} ELSE {ArgMax(v)}

\* One decoding step of the host on row 0: the forward pass, prefix_allowed_tokens_fn
\* when it was passed, the resolved chain (the recorder's __call__, lines 16-19, and
\* the filter, lines 81-83, when they are in it), then one token is appended.
HostStep ==
  /\ pc = "generate"
  /\ steps < MaxSteps
  /\ passed.kw.nInputs >= 1
  /\ passed.kw.do_sample => hostChain.resolved
  /\ LET raw == Logits(net, sequence)
         entered == IF passed.prefix_allowed_tokens_fn
                      THEN PrefixConstrainedLogitsProcessor(sequence, raw)
                      ELSE raw
         run == IF hostChain.resolved
                  THEN RunChain(hostChain.list, sequence, entered, scores)
                  ELSE [v |-> entered, sc |-> scores]
     IN  \E tok \in HostChoices(run.v, passed.kw.do_sample) :
           /\ sequence' = Append(sequence, tok)
           /\ scores' = run.sc
           /\ last' = [tok |-> tok,
                       allowed |-> get_allowed_tokens(parser, sequence),
                       entered |-> entered,
                       left |-> run.v,
                       plain |-> PlainScores(sequence, raw)]
  /\ steps' = steps + 1
  /\ UNCHANGED <<pc, kwargs, parser, net, prompt, hook, old_warper, warper, passed,
                 generateCalls, hostChain, pending, error, output, hookBefore,
                 reducerInvoked, plainChain>>
  /\ UNCHANGED <<managers, trace>>

\* model.generate returns. On the fallback path its result is what generate_enforced
\* returns (lines 122, 124).
HostReturn ==
  /\ pc = "generate"
  /\ passed.kw.do_sample => hostChain.resolved
  /\ output' = [rows |-> passed.kw.nInputs, row0 |-> sequence, attached |-> FALSE,
                enforced_scores |-> NoTable]
  /\ pc' = IF Advanced THEN "finally" ELSE "returned"
  /\ UNCHANGED <<kwargs, parser, net, prompt, hook, old_warper, warper, scores, passed,
                 generateCalls, hostChain, sequence, steps, last, pending, error,
                 hookBefore, reducerInvoked, plainChain, managers, trace>>
  /\ UNCHANGED <<managers, trace>>

\* model.generate raises. On the fallback path nothing catches it.
HostRaise ==
  /\ pc = "generate"
  /\ pending' = "HostError"
  /\ pc' = IF Advanced THEN "finally" ELSE "raised"
  /\ error' = IF Advanced THEN error ELSE "HostError"
  /\ UNCHANGED <<kwargs, parser, net, prompt, hook, old_warper, warper, scores, passed,
                 generateCalls, hostChain, sequence, steps, last, output, hookBefore,
                 reducerInvoked, plainChain>>
  /\ UNCHANGED <<managers, trace>>

\* Finally as an except clause that swallows the exception would behave.
FinallySuppresses ==
  /\ pc = "finally"
  /\ hook' = UnreplaceLogitsWarper(hook, old_warper)
  /\ pc' = "reduce"
  /\ UNCHANGED <<kwargs, parser, net, prompt, old_warper, warper, scores, passed,
                 generateCalls, hostChain, sequence, steps, last, pending, error, output,
                 hookBefore, reducerInvoked, plainChain, managers, trace>>
  /\ UNCHANGED <<managers, trace>>

\* The finally block, lines 102-103; the exception in flight, if any, then leaves
\* generate_enforced.
Finally ==
  /\ pc = "finally"
  /\ hook' = UnreplaceLogitsWarper(hook, old_warper)
  /\ IF pending # "none"
       THEN pc' = "raised" /\ error' = pending
       ELSE pc' = "reduce" /\ UNCHANGED error
  /\ UNCHANGED <<kwargs, parser, net, prompt, old_warper, warper, scores, passed,
                 generateCalls, hostChain, sequence, steps, last, pending, output,
                 hookBefore, reducerInvoked, plainChain, managers, trace>>
  /\ UNCHANGED <<managers, trace>>

\* Lines 105-120 and 124: the reduction, the table attached to the output, the return.
Reduce ==
  /\ pc = "reduce"
  /\ reducerInvoked' = TRUE
  /\ LET r == Reduction(output.rows, output.row0, warper, scores)
     IN  IF r.err = "none"
           THEN /\ output' = [output EXCEPT !.attached = TRUE, !.enforced_scores = r.table]
                /\ pc' = "returned"
                /\ UNCHANGED error
           ELSE /\ error' = r.err
                /\ pc' = "raised"
                /\ UNCHANGED output
  /\ UNCHANGED <<kwargs, parser, net, prompt, hook, old_warper, warper, scores, passed,
                 generateCalls, hostChain, sequence, steps, last, pending, hookBefore,
                 plainChain>>
  /\ UNCHANGED <<managers, trace>>


\* After generate_enforced has ended, the caller calls model.generate directly and the
\* host resolves its chain through whatever model._get_logits_warper now is.
PlainResolve ==
  /\ pc \in {"returned", "raised"}
  /\ ~plainChain.resolved
  /\ LET r == InvokeHook(hook, old_warper, Len(scores) + 1)
     IN  /\ plainChain' = [resolved |-> TRUE, list |-> r.list, err |-> r.err]
         /\ IF r.creates
              THEN /\ scores' = Append(scores, <<>>)
                   /\ warper' = Len(scores) + 1
              ELSE UNCHANGED <<scores, warper>>
  /\ UNCHANGED <<pc, kwargs, parser, net, prompt, hook, old_warper, passed,
                 generateCalls, hostChain, sequence, steps, last, pending, error, output,
                 hookBefore, reducerInvoked>>
  /\ UNCHANGED <<managers, trace>>

Next ==
  \/ Enter
  \/ HostResolve
  \/ HostStep
  \/ HostReturn
  \/ HostRaise
  \/ Finally
  \/ Reduce
  \/ PlainResolve

Spec == Init /\ [][Next]_vars

-----------------------------------------------------------------------------
(* Calls of generate_enforced one after another on the same model *)

\* Keyword arguments that select the instrumented path, with a batch of one row.
InstrumentedKwargs ==
  {kw \in KwargsSet : /\ ShouldRunInAdvancedMode(kw)
                      /\ kw.nInputs = 1
                      /\ kw.num_beams = None}

\* An instrumented call. The first call chooses the model, the parser and the
\* prompt, and the later calls repeat them: what differs between the calls is
\* sampling or greedy decoding, the tokens generated and how the call ends.
EnterSession ==
  IF generateCalls = 0
    THEN EnterWith(InstrumentedKwargs, Parsers, Nets, {<<t>> : t \in Tokens})
    ELSE EnterWith(InstrumentedKwargs, {parser}, {net}, {prompt})

\* generate_enforced has ended and the caller goes on to its next call on the same
\* model. The locals of the ended call are gone; the model stays as the call left
\* it, and the ended call's manager, with the recorder it references, stays as the
\* object a later call must not pick up. Recorders nothing references are dropped.
NextCall ==
  /\ pc \in {"returned", "raised"}
  /\ generateCalls < MaxCalls
  /\ pc' = "idle"
  /\ kwargs' = NoKwargs
  /\ passed' = [kw |-> NoKwargs, prefix_allowed_tokens_fn |-> FALSE]
  /\ hostChain' = NoChain
  /\ sequence' = <<>>
  /\ steps' = 0
  /\ last' = NoStep
  /\ pending' = "none"
  /\ error' = "none"
  /\ output' = NoOutput
  /\ reducerInvoked' = FALSE
  /\ IF warper = None
       THEN scores' = <<>> /\ warper' = None
       ELSE scores' = <<scores[warper]>> /\ warper' = 1
  /\ UNCHANGED <<parser, net, prompt, hook, old_warper, generateCalls, hookBefore,
                 plainChain>>
  /\ UNCHANGED <<managers, trace>>

NextSessions ==
  \/ EnterSession
  \/ HostResolve
  \/ HostStep
  \/ HostReturn
  \/ HostRaise
  \/ Finally
  \/ Reduce
  \/ NextCall

SpecSessions == Init /\ [][NextSessions]_vars


-----------------------------------------------------------------------------
(* Properties *)

Ended == pc \in {"returned", "raised"}

MultiShape == kwargs.nInputs > 1 \/ Get(kwargs.num_beams, None, 1) > 1

\* The instrumented path was taken: model.generate was called at line 101, without
\* prefix_allowed_tokens_fn, after the hook was replaced.
TookInstrumentedPath == pc # "idle" /\ ~passed.prefix_allowed_tokens_fn

Table == output.enforced_scores

Columns ==
  <<Table.generated_token, Table.generated_token_idx, Table.generated_score,
    Table.leading_token, Table.leading_token_idx, Table.leading_score>>

\* The token sequence as it stood before decoding step i.
Before(i) == SubSeq(sequence, 1, Len(prompt) + i - 1)

\* The token appended at decoding step i.
NewToken(i) == sequence[Len(prompt) + i]

\* C1: in every call, the token the host appends at a decoding step is one of the
\* tokens get_allowed_tokens returned for the sequence as it stood before the step.
C1_OnlyAllowedTokens ==
  (pc # "idle" /\ steps > 0) => last.tok \in last.allowed

\* C2: once an instrumented call has ended, by return or by exception, the model's
\* hook is the hook of before the call, and a later uninstrumented generate resolves
\* the original chain: no recorder, no filter, no new recorder created.
C2_HookRestored ==
  (TookInstrumentedPath /\ Ended) =>
    /\ hook = hookBefore
    /\ plainChain.resolved =>
         /\ plainChain.err = "none"
         /\ plainChain.list = OriginalChain
         /\ \A i \in 1 .. Len(plainChain.list) :
              plainChain.list[i].kind \notin {"recorder", "filter"}
         /\ Len(scores) <= 1

C2_Witness ==
  /\ TookInstrumentedPath
  /\ pc = "raised"
  /\ pending = "HostError"
  /\ hostChain.resolved
  /\ plainChain.resolved

\* C3: when model.generate raises in an instrumented call, that same exception leaves
\* generate_enforced, with the hook restored, the reduction never entered and nothing
\* returned.
C3_FailurePropagates ==
  (TookInstrumentedPath /\ pending # "none") =>
    /\ pc \in {"finally", "raised"}
    /\ ~reducerInvoked
    /\ output = NoOutput
    /\ pc = "raised" => (error = pending /\ hook = hookBefore)

C3_Witness ==
  /\ TookInstrumentedPath
  /\ pending = "HostError"
  /\ pc = "raised"
  /\ steps > 0

\* C4: the instrumented path is taken exactly when the batch has exactly one input
\* sequence, num_beams (default 1) is at most one, and return_dict_in_generate and
\* output_scores are both truthy.
C4_ModeSelection ==
  pc # "idle" =>
    (TookInstrumentedPath <=>
       /\ kwargs.nInputs = 1
       /\ Get(kwargs.num_beams, None, 1) <= 1
       /\ kwargs.return_dict_in_generate = "True"
       /\ kwargs.output_scores = "True")

\* C5: with more than one input sequence or more than one beam, the hook is the
\* caller's at every point of the call, no recorder exists, model.generate is called
\* once with the caller's arguments plus prefix_allowed_tokens_fn, the only exception
\* is the host's, and the result carries no enforced_scores.
C5_FallbackLeavesModelAlone ==
  (pc # "idle" /\ MultiShape) =>
    /\ hook = hookBefore
    /\ old_warper = None
    /\ warper = None
    /\ scores = <<>>
    /\ \A i \in 1 .. Len(hostChain.list) : hostChain.list[i].kind # "recorder"
    /\ generateCalls = 1
    /\ passed = [kw |-> kwargs, prefix_allowed_tokens_fn |-> TRUE]
    /\ pc \in {"generate", "returned", "raised"}
    /\ ~reducerInvoked
    /\ pc = "raised" => (error = "HostError" /\ pending = "HostError")
    /\ pc = "returned" =>
         (error = "none" /\ ~output.attached /\ output.row0 = sequence
            /\ output.rows = kwargs.nInputs)

C5_Witness ==
  /\ MultiShape
  /\ kwargs.return_dict_in_generate = "True"
  /\ kwargs.output_scores = "True"
  /\ pc = "returned"
  /\ hostChain.resolved
  /\ steps = 2

\* C6: with a constraint that allows every token, each decoding step of an
\* instrumented call leaves the chain with the scores the uninstrumented path
\* produces from the same forward pass, and appends a token that path could append;
\* the recorder and the filter hand the vector they were given to the rest of the
\* chain.
C6_Transparent ==
  (TookInstrumentedPath /\ parser = "any" /\ steps > 0) =>
    /\ last.left = last.plain
    /\ last.tok \in HostChoices(last.plain, kwargs.do_sample)
    /\ hostChain.resolved =>
         /\ Last(scores[warper]) = last.entered
         /\ RunChain(SubSeq(hostChain.list, 1, 2), Before(steps), last.entered, scores).v
              = last.entered

C6_Witness ==
  /\ TookInstrumentedPath
  /\ parser = "any"
  /\ hostChain.resolved
  /\ steps = 2
  /\ Len(scores[warper]) = 2

\* C7: the six columns of an attached table have one row per decoding step, and row
\* i of generated_token_idx is the i-th token appended after the prompt.
C7_Aligned ==
  (pc = "returned" /\ output.attached) =>
    /\ \A c \in 1 .. 6 : Len(Columns[c]) = steps
    /\ Len(output.row0) = Len(prompt) + steps
    /\ \A i \in 1 .. steps :
         /\ Table.generated_token_idx[i] = output.row0[Len(output.row0) - steps + i]
         /\ Table.generated_token_idx[i] = NewToken(i)
         /\ Table.generated_token[i] = convert_ids_to_tokens(NewToken(i))

C7_Witness ==
  /\ pc = "returned"
  /\ output.attached
  /\ steps = 2
  /\ Len(prompt) = 2
  /\ NewToken(1) # NewToken(2)
  /\ NewToken(2) # prompt[2]

\* C8: in every row of the table the leading score is at least the generated score,
\* the leading token is an argmax of the recorded vector of that step, and the two
\* scores are equal when the generated token is the leading token.
C8_LeadingDominates ==
  (pc = "returned" /\ output.attached) =>
    \A i \in 1 .. Len(Table.leading_score) :
      /\ Geq(Table.leading_score[i], Table.generated_score[i])
      /\ IsMax(scores[warper][i], Table.leading_token_idx[i])
      /\ Table.leading_token[i] = convert_ids_to_tokens(Table.leading_token_idx[i])
      /\ Table.generated_token_idx[i] = Table.leading_token_idx[i]
           => Table.generated_score[i] = Table.leading_score[i]

C8_Witness ==
  /\ pc = "returned"
  /\ output.attached
  /\ steps = 2
  /\ Table.generated_token_idx[1] = Table.leading_token_idx[1]
  /\ Table.generated_token_idx[2] # Table.leading_token_idx[2]
  /\ ~Geq(Table.generated_score[2], Table.leading_score[2])

\* C9: when model.generate returns after zero decoding steps in an instrumented
\* call (the recorder exists and holds no vector), the reduction does not fail and
\* the six columns are empty.
C9_EmptyTable ==
  (/\ TookInstrumentedPath
   /\ kwargs.nInputs = 1
   /\ warper # None
   /\ reducerInvoked
   /\ steps = 0) =>
    /\ pc = "returned"
    /\ output.attached
    /\ \A c \in 1 .. 6 : Columns[c] = <<>>

\* C10: the chain the override returns is the recorder, the filter, then the original
\* entries in order; the vector recorded at step i is the forward pass's scores of
\* that step, unmasked; and a generated_score is the generated token's probability
\* under those scores.
C10_RecorderFirst ==
  (TookInstrumentedPath /\ hostChain.resolved) =>
    /\ hostChain.list = <<RecorderEntry(warper), FilterEntry>> \o OriginalChain
    /\ Len(scores[warper]) = steps
    /\ \A i \in 1 .. steps : scores[warper][i] = Logits(net, Before(i))
    /\ steps > 0 => scores[warper][steps] = last.entered
    /\ (pc = "returned" /\ output.attached) =>
         \A i \in 1 .. steps :
           Table.generated_score[i] = Softmax(Logits(net, Before(i)))[NewToken(i)]

C10_Witness ==
  /\ pc = "returned"
  /\ output.attached
  /\ parser = "position"
  /\ steps = 2
  /\ \A i \in 1 .. 2 :
       /\ get_allowed_tokens(parser, Before(i)) = {NewToken(i)}
       /\ Table.generated_score[i][1] < Table.generated_score[i][2]


\* The order in which an instrumented call goes through its states.
SessionOrder ==
  {<<"idle", "generate">>, <<"generate", "finally">>, <<"finally", "reduce">>,
   <<"finally", "raised">>, <<"reduce", "returned">>, <<"reduce", "raised">>}

\* C11: an instrumented call installs the override before model.generate starts,
\* calls model.generate once with exactly the caller's keyword arguments, restores
\* the hook when generate has ended, and enters the reduction only with the hook
\* restored; its states follow idle, generate, finally, reduce/raised, returned/raised.
C11_SessionOrder ==
  /\ [](TookInstrumentedPath =>
          /\ generateCalls = 1
          /\ passed = [kw |-> kwargs, prefix_allowed_tokens_fn |-> FALSE]
          /\ pc \in {"generate", "finally"} =>
               (hook = Override /\ old_warper = hookBefore /\ ~reducerInvoked)
          /\ pc \in {"reduce", "returned", "raised"} => hook = hookBefore)
  /\ [][TookInstrumentedPath' =>
          /\ pc' # pc => <<pc, pc'>> \in SessionOrder
          /\ (steps' # steps \/ hostChain' # hostChain) =>
               (pc = "generate" /\ hook = Override /\ hook' = Override)
          /\ (reducerInvoked' /\ ~reducerInvoked) =>
               (pc = "reduce" /\ hook = hookBefore /\ hostChain' = hostChain)]_vars

C11_Witness ==
  /\ TookInstrumentedPath
  /\ pc = "returned"
  /\ reducerInvoked
  /\ output.attached
  /\ hook = OriginalHook
  /\ steps = 1

\* C12: a recorder's list only grows at its end: every decoding step through the
\* chain appends exactly the vector that entered the chain and leaves the earlier
\* entries as they were, so the list of the session's recorder has one entry per
\* decoding step performed, whatever the chain makes of the vector afterwards.
C12_AppendOnly ==
  /\ []((TookInstrumentedPath /\ hostChain.resolved) =>
          /\ Len(scores[warper]) = steps
          /\ steps > 0 => Last(scores[warper]) = last.entered)
  /\ [][/\ Len(scores') >= Len(scores)
        /\ \A r \in 1 .. Len(scores) :
             \/ scores'[r] = scores[r]
             \/ /\ steps' = steps + 1
                /\ scores'[r] = Append(scores[r], last'.entered)
        /\ (steps' = steps + 1 /\ TookInstrumentedPath /\ hostChain.resolved) =>
             scores'[warper] = Append(scores[warper], last'.entered)]_vars

C12_Witness ==
  /\ TookInstrumentedPath
  /\ hostChain.resolved
  /\ pc = "returned"
  /\ steps = 1
  /\ Len(scores[warper]) = 1
  /\ last.left # last.entered
  /\ scores[warper][1] = last.entered


\* C13: in a sequence of instrumented calls on one model, also after calls that
\* failed, a call's table has one row per step of that call and is computed from the
\* vectors of that call's own forward passes; a call during which no recorder was
\* created has no table, whatever earlier calls recorded.
C13_NoLeakAcrossCalls ==
  /\ (pc = "returned" /\ output.attached) =>
       /\ hostChain.resolved
       /\ warper = Len(scores)
       /\ \A c \in 1 .. 6 : Len(Columns[c]) = steps
       /\ scores[warper] = [i \in 1 .. steps |-> Logits(net, Before(i))]
       /\ \A i \in 1 .. steps :
            /\ Table.generated_token_idx[i] = NewToken(i)
            /\ Table.generated_score[i] = Softmax(Logits(net, Before(i)))[NewToken(i)]
            /\ Table.leading_token_idx[i] = ArgMax(Logits(net, Before(i)))
  /\ (reducerInvoked /\ ~hostChain.resolved) => (pc = "raised" /\ error = "AttributeError")
  /\ (pc = "generate" /\ hostChain.resolved) => (warper = Len(scores) /\ Len(scores[warper]) = steps)

C13_Witness ==
  /\ generateCalls = 2
  /\ pc = "returned"
  /\ output.attached
  /\ steps = 1
  /\ Len(scores) = 2
  /\ Len(scores[1]) = 2
  /\ scores[1] # scores[2]

-----------------------------------------------------------------------------
(* LogitsSaverManager driven directly: replace, unreplace and hook invocations
   in any order, by one manager or by several on the same model *)

\* The function object a replace_logits_warper call of manager m installs (line 40).
\* The closure reads self.old_warper when it is invoked (line 33), so the closures of
\* one manager differ only in the filter_func they captured. Closure(1, TRUE) is the
\* Override generate_enforced installs.
Closure(m, with_filter) == IF with_filter THEN m ELSE None - m

IsClosure(h) == h # None /\ h # OriginalHook
ManagerOf(h) == IF h > 0 THEN h ELSE None - h
HasFilter(h) == h > 0

\* replace_logits_warper that saves the hook only the first time.
replace_logits_warper_keep_saved(m, with_filter, h, saved) ==
  [old_warper |-> IF saved = None THEN h ELSE saved, hook |-> Closure(m, with_filter)]

\* replace_logits_warper of manager m, lines 30 and 40: h is the model's hook, saved
\* the manager's old_warper before the call.
replace_logits_warper(m, with_filter, h, saved) ==
  [old_warper |-> h, hook |-> Closure(m, with_filter)]

NoCall == [err |-> "none", list |-> <<>>, created |-> <<>>]

\* Calling the value h of model._get_logits_warper when the managers are ms and nrec
\* recorders exist. A closure first calls its manager's old_warper (line 33) and only
\* then creates its recorder (line 34), so a call that fails creates none. depth is
\* the number of closures that may still be entered: a chain of saved hooks that
\* enters more closures than there are managers enters one manager twice and, the
\* managers not changing during the call, never reaches the bottom.
\* created: the pairs <<manager, recorder>> in the order of creation.
RECURSIVE new_logits_warper(_, _, _, _)
new_logits_warper(h, ms, nrec, depth) ==
  IF h = None THEN [NoCall EXCEPT !.err = "TypeError"]
  ELSE IF h = OriginalHook THEN [NoCall EXCEPT !.list = OriginalChain]
  ELSE IF depth = 0 THEN [NoCall EXCEPT !.err = "RecursionError"]
  ELSE
    LET warpers == new_logits_warper(ms[ManagerOf(h)].old_warper, ms, nrec, depth - 1)
        r == nrec + Len(warpers.created) + 1
    IN  IF warpers.err # "none" THEN warpers
        ELSE [err |-> "none",
              list |-> NewLogitsWarper(warpers.list, r, HasFilter(h)),
              created |-> Append(warpers.created, <<ManagerOf(h), r>>)]

CallHook(h, ms, nrec) == new_logits_warper(h, ms, nrec, Cardinality(DOMAIN ms))

\* The managers after the recorders of created were assigned (line 34).
RECURSIVE AssignWarpers(_, _)
AssignWarpers(ms, created) ==
  IF created = <<>> THEN ms
  ELSE AssignWarpers([ms EXCEPT ![created[1][1]].warper = created[1][2]], Tail(created))

Driven == pc = "idle" /\ generateCalls = 0 /\ Len(trace) < MaxOps

\* manager m: replace_logits_warper(filter_func), filter_func None or not
ManagerReplace(m, with_filter) ==
  /\ Driven
  /\ LET replaced == replace_logits_warper(m, with_filter, hook, managers[m].old_warper)
     IN  /\ managers' = [managers EXCEPT ![m].old_warper = replaced.old_warper]
         /\ hook' = replaced.hook
  /\ trace' = Append(trace, [op |-> "replace", m |-> m, with_filter |-> with_filter])
  /\ UNCHANGED <<pc, kwargs, parser, net, prompt, old_warper, warper, scores, passed,
                 generateCalls, hostChain, sequence, steps, last, pending, error,
                 output, hookBefore, reducerInvoked, plainChain>>

\* manager m: unreplace_logits_warper()
ManagerUnreplace(m) ==
  /\ Driven
  /\ hook' = UnreplaceLogitsWarper(hook, managers[m].old_warper)
  /\ trace' = Append(trace, [op |-> "unreplace", m |-> m, with_filter |-> FALSE])
  /\ UNCHANGED <<pc, kwargs, parser, net, prompt, old_warper, warper, scores, passed,
                 generateCalls, hostChain, sequence, steps, last, pending, error,
                 output, hookBefore, reducerInvoked, plainChain, managers>>

\* model._get_logits_warper(generation_config) is called, as the host does once per
\* sampling generate call; plainChain keeps what the call returned or raised.
HookInvoked ==
  /\ Driven
  /\ LET called == CallHook(hook, managers, Len(scores))
     IN  /\ plainChain' = [resolved |-> TRUE, list |-> called.list, err |-> called.err]
         /\ scores' = scores \o [i \in 1 .. Len(called.created) |-> <<>>]
         /\ managers' = AssignWarpers(managers, called.created)
  /\ trace' = Append(trace, [op |-> "invoke", m |-> 0, with_filter |-> FALSE])
  /\ UNCHANGED <<pc, kwargs, parser, net, prompt, hook, old_warper, warper, passed,
                 generateCalls, hostChain, sequence, steps, last, pending, error,
                 output, hookBefore, reducerInvoked>>

NextManagers ==
  \/ \E m \in Managers, with_filter \in BOOLEAN : ManagerReplace(m, with_filter)
  \/ \E m \in Managers : ManagerUnreplace(m)
  \/ HookInvoked

SpecManagers == Init /\ [][NextManagers]_vars

\* The replace and unreplace calls of the trace, in order.
Ops == SelectSeq(trace, LAMBDA o : o.op # "invoke")

\* Two sessions of different managers on a fresh model, the second installing before
\* the first uninstalls, uninstalling in the order they installed.
Overlapped(T) ==
  /\ Len(T) = 4
  /\ T[1].op = "replace" /\ T[2].op = "replace"
  /\ T[3].op = "unreplace" /\ T[4].op = "unreplace"
  /\ T[1].m # T[2].m
  /\ T[3].m = T[1].m /\ T[4].m = T[2].m

\* Sessions one after the other: every replace is followed by the unreplace of the
\* same manager before the next replace.
Serialized(T) ==
  \A i \in 1 .. Len(T) :
    IF i % 2 = 1 THEN T[i].op = "replace"
    ELSE T[i].op = "unreplace" /\ T[i].m = T[i - 1].m

\* C14: after two overlapping sessions that uninstall in the order they installed
\* the model's hook is not the original but the override of the first session; after
\* each session of a serialized sequence the hook is the original.
C14_NotReentrant ==
  /\ Overlapped(Ops) =>
       /\ hook # OriginalHook
       /\ hook = Closure(Ops[1].m, Ops[1].with_filter)
  /\ Serialized(Ops) =>
       IF Len(Ops) % 2 = 0 THEN hook = OriginalHook
       ELSE hook = Closure(Last(Ops).m, Last(Ops).with_filter)

C14_Witness ==
  /\ Overlapped(Ops)
  /\ Ops[1].m = 1 /\ Ops[2].m = 2
  /\ hook = Closure(1, Ops[1].with_filter)
  /\ managers[2].old_warper = hook

-----------------------------------------------------------------------------
(* The reduction of lines 105-120 applied to any recorder and token sequence *)

\* Row 0 of a host output: at least the prompt's first token.
TokenSequences == UNION {[1 .. n -> Tokens] : n \in 1 .. MaxPromptLen}

\* generate_enforced stands before line 105: model.generate has returned
\* token_sequence as row 0 of its output and the recorder holds k vectors.
InitReducer ==
  \E n \in Nets, k \in 0 .. MaxSteps + 1, token_sequence \in TokenSequences :
    /\ pc = "reduce"
    /\ kwargs = CHOOSE kw \in InstrumentedKwargs : kw.do_sample
    /\ parser = "any"
    /\ net = n
    /\ prompt = <<>>
    /\ hook = OriginalHook
    /\ old_warper = OriginalHook
    /\ warper = 1
    /\ scores = <<[i \in 1 .. k |-> Logits(n, [j \in 1 .. i |-> 0])]>>
    /\ passed = [kw |-> kwargs, prefix_allowed_tokens_fn |-> FALSE]
    /\ generateCalls = 1
    /\ hostChain = [resolved |-> TRUE, list |-> NewLogitsWarper(OriginalChain, 1, TRUE),
                    err |-> "none"]
    /\ sequence = token_sequence
    /\ steps = k
    /\ last = NoStep
    /\ pending = "none"
    /\ error = "none"
    /\ output = [NoOutput EXCEPT !.rows = 1, !.row0 = token_sequence]
    /\ hookBefore = OriginalHook
    /\ reducerInvoked = FALSE
    /\ plainChain = NoChain
    /\ managers = [m \in Managers |-> LogitsSaverManagerInit]
    /\ trace = <<>>

NextReducer == Reduce

SpecReducer == InitReducer /\ [][NextReducer]_vars

\* C15: when the recorder holds more vectors than the token sequence has tokens, the
\* reduction ends with an AssertionError and attaches no table.
C15_MismatchAsserted ==
  (reducerInvoked /\ Len(scores[warper]) > Len(output.row0)) =>
    /\ pc = "raised"
    /\ error = "AssertionError"
    /\ ~output.attached

\* What the reduction does instead when the token sequence has one token and the
\* recorder more: the index broadcasts and a table of unequal columns is attached.
C15_BroadcastTable ==
  (reducerInvoked /\ Len(output.row0) = 1 /\ Len(scores[warper]) > 1) =>
    /\ pc = "returned"
    /\ output.attached
    /\ Len(Table.generated_token_idx) = 1
    /\ Len(Table.generated_score) = Len(scores[warper])
    /\ \A i \in 1 .. Len(scores[warper]) :
         Table.generated_score[i] = Softmax(scores[warper][i])[output.row0[1]]

-----------------------------------------------------------------------------
(* A host that calls model._get_logits_warper as often as it likes *)

\* line 34 with a manager that keeps the recorder it already has.
AssignWarperKeepFirst(w, r) == IF w = None THEN r ELSE w

\* new_logits_warper, line 34: self.warper = LogitsSaverWarper(); w is the manager's
\* warper before, r the recorder just created.
AssignWarper(w, r) == r

EnterInstrumented == EnterWith(InstrumentedKwargs, Parsers, Nets, Prompts)

\* The host calls model._get_logits_warper once more during the same generate call
\* and goes on with the list this call returned.
HostResolveAgain ==
  /\ pc = "generate"
  /\ Advanced
  /\ hostChain.resolved
  /\ Len(scores) < MaxHookCalls
  /\ LET r == InvokeHook(hook, old_warper, Len(scores) + 1)
     IN  /\ r.err = "none"
         /\ r.creates
         /\ hostChain' = [resolved |-> TRUE, list |-> r.list, err |-> "none"]
         /\ scores' = Append(scores, <<>>)
         /\ warper' = AssignWarper(warper, Len(scores) + 1)
  /\ UNCHANGED <<pc, kwargs, parser, net, prompt, hook, old_warper, passed,
                 generateCalls, sequence, steps, last, pending, error, output,
                 hookBefore, reducerInvoked, plainChain, managers, trace>>

NextHost ==
  \/ EnterInstrumented
  \/ HostResolve
  \/ HostResolveAgain
  \/ HostStep
  \/ HostReturn
  \/ HostRaise
  \/ Finally
  \/ Reduce

SpecHost == Init /\ [][NextHost]_vars

\* How many vectors the recorders of sc hold together.
RECURSIVE Recorded(_)
Recorded(sc) == IF sc = <<>> THEN 0 ELSE Len(sc[1]) + Recorded(Tail(sc))

\* C16: once model.generate has returned normally in an instrumented call, what the
\* reducer finds depends on how often the host invoked the hook, that is on how many
\* recorders exist. None: the manager's warper is None and the reduction fails on it.
\* One: the manager's recorder holds the vector of every step. More: the manager's
\* warper is the last recorder, and an attached table has a row for each vector of
\* that recorder only, the vectors of the earlier recorders being left out.
C16_OneInvocationNeeded ==
  (pc = "reduce" \/ reducerInvoked) =>
    /\ Len(scores) = 0 =>
         /\ warper = None
         /\ reducerInvoked => (pc = "raised" /\ error = "AttributeError")
    /\ Len(scores) = 1 =>
         /\ warper = 1
         /\ scores[1] = [i \in 1 .. steps |-> Logits(net, Before(i))]
         /\ output.attached => \A c \in 1 .. 6 : Len(Columns[c]) = steps
    /\ Len(scores) > 1 =>
         /\ warper = Len(scores)
         /\ Recorded(scores) = steps
         /\ output.attached =>
              \A c \in 1 .. 6 :
                Len(Columns[c]) = steps - Recorded(SubSeq(scores, 1, Len(scores) - 1))

C16_Witness ==
  /\ pc = "returned"
  /\ output.attached
  /\ steps = 2
  /\ Len(scores) = 2
  /\ Len(scores[1]) = 1
  /\ warper = 2
  /\ Len(Table.generated_score) = 1

-----------------------------------------------------------------------------
(* One manager, any sequence of replace and unreplace *)

\* Every replace and unreplace of T was made by manager m.
OnlyManager(T, m) == \A i \in 1 .. Len(T) : T[i].m = m

\* Two replace calls with no unreplace between them.
DoubleReplace(T) ==
  \E i \in 1 .. Len(T) - 1 : T[i].op = "replace" /\ T[i + 1].op = "replace"

\* The list an installed override returns: the original chain with the recorder r,
\* and the filter when there is one, in front.
Instrumented(r, with_filter) ==
  <<RecorderEntry(r)>> \o (IF with_filter THEN <<FilterEntry>> ELSE <<>>) \o OriginalChain

\* C17: for the calls of one manager. When the first call is a replace and no replace
\* follows a replace (strict alternation, or unreplace repeated), the hook is the
\* original after every unreplace, and after every replace the hook is the override,
\* the saved hook is the original and invoking the hook returns the original chain
\* with one recorder, and one filter if filter_func was given, in front. An unreplace
\* as the first call sets the hook to None. Once a replace has followed a replace,
\* the saved hook is never the original again, nor is the hook, and invoking the hook
\* recurses without end (RecursionError).
C17_ReplaceUnreplaceDiscipline ==
  \A m \in Managers :
    (Len(Ops) > 0 /\ OnlyManager(Ops, m)) =>
      LET called == CallHook(hook, managers, Len(scores))
          invoked == Last(trace).op = "invoke"
      IN  /\ (Ops[1].op = "replace" /\ ~DoubleReplace(Ops)) =>
               IF Last(Ops).op = "unreplace"
                 THEN /\ hook = OriginalHook
                      /\ called.list = OriginalChain
                 ELSE /\ hook = Closure(m, Last(Ops).with_filter)
                      /\ managers[m].old_warper = OriginalHook
                      /\ called.err = "none"
                      /\ called.list = Instrumented(Len(scores) + 1, Last(Ops).with_filter)
                      /\ invoked =>
                           /\ plainChain.err = "none"
                           /\ plainChain.list =
                                Instrumented(Len(scores), Last(Ops).with_filter)
                           /\ managers[m].warper = Len(scores)
          /\ (Ops[1].op = "unreplace" /\ Len(Ops) = 1) =>
               /\ hook = None
               /\ called.err = "TypeError"
          /\ DoubleReplace(Ops) =>
               /\ hook # OriginalHook
               /\ managers[m].old_warper # OriginalHook
               /\ IsClosure(hook) /\ ManagerOf(hook) = m
               /\ ManagerOf(managers[m].old_warper) = m
               /\ called.err = "RecursionError"
               /\ invoked => (plainChain.err = "RecursionError" /\ plainChain.list = <<>>)

C17_Witness ==
  /\ Len(trace) = 4
  /\ OnlyManager(Ops, 1)
  /\ trace[1].op = "replace"
  /\ trace[2].op = "invoke"
  /\ trace[3].op = "replace"
  /\ trace[4].op = "invoke"
  /\ managers[1].old_warper = Closure(1, trace[1].with_filter)
  /\ managers[1].warper = 1
  /\ plainChain.err = "RecursionError"

====
